---- MODULE Spec2Model ----
(***************************************************************************)
(* crrd: a round-robin time-series database.                               *)
(*                                                                         *)
(* The model follows the hrtime_t dialect of crrd.c (rrd_* and dbrrd_*     *)
(* functions) and the callbacks of test.c.  A stack is the list of rings   *)
(* linked through next, head first.  hrtime_t is a signed 64-bit integer   *)
(* (longlong_t in sys/zfs_context.h), so timestamps may be negative and    *)
(* the C operators / and % truncate toward zero.                           *)
(***************************************************************************)
EXTENDS Integers, Sequences, FiniteSets, TLC

VARIABLES
    cfg,        \* the arguments of dbrrd_create and the payloads the caller feeds
    stack,      \* the rings of the database, stack[1] is the list head
    cover,      \* ghost: per ring, per slot, the bucket start the slot was claimed for
    calls,      \* ghost: per ring, update/zero invocations of the last rrd_add_at
    pre,        \* ghost: stack before the last operation
    precover,   \* ghost: cover before the last operation
    op,         \* ghost: the last operation and its arguments
    qres,       \* result of the last dbrrd_query: return value, *vp, *res
    ret,        \* value the last rrd_get or find_period call returned
    fed,        \* number of samples a test program has fed so far
    heap,       \* the blocks malloc has handed out, and the addresses of the rings
    proc,       \* the process: built with TESTING or not, still running or not
    zlog,       \* ghost: per ring, the zero invocations of the last rrd_add_at
    mf,         \* the activation of multi_find: where it is, its arguments and result
    origin      \* ghost: per ring, the start its first sample set, and whether a bucket was evicted since

vars == <<cfg, stack, cover, calls, pre, precover, op, qres, ret, fed, heap, proc, zlog, mf, origin>>

----------------------------------------------------------------------------
(* Bounds of the model *)

MaxTime == 7      \* timestamps range over -NegSpan .. MaxTime
NegSpan == 2

Times == (0 - NegSpan) .. MaxTime

NonNegTimes == 0 .. MaxTime

NULL == -1

\* mktime(2024-01-01Thh:mm:ssZ) under TZ=GMT; 2024-01-01 is day 19723
Clock(hh, mm, ss) == 19723 * 86400 + hh * 3600 + mm * 60 + ss

\* Content of a bucket that no store has reached (malloc'ed, never written).
Uninit == [l |-> 0, h |-> 0]

\* txg_add_at stores the pair {v, v}
Txg(v) == [l |-> v, h |-> v]

----------------------------------------------------------------------------
(* C integer arithmetic on signed operands: / and % truncate toward zero *)

CRem(a, b) == IF a >= 0 THEN a % b ELSE 0 - ((0 - a) % b)

CQuot(a, b) == IF a >= 0 THEN a \div b ELSE 0 - ((0 - a) \div b)

----------------------------------------------------------------------------
(* Period arithmetic *)

find_period_index(time, tperiod) == CQuot(time, tperiod)

find_period_prev(time, tperiod) ==
    IF CRem(time, tperiod) = 0 THEN time - tperiod ELSE time - CRem(time, tperiod)

find_period(time, tperiod) == time - CRem(time, tperiod)

----------------------------------------------------------------------------
(* Ring *)

rrd_create(res, cap, sz) ==
    [ resolution |-> res,
      capacity   |-> cap,
      size       |-> sz,
      head       |-> -1,
      tail       |-> -1,
      start      |-> 0,
      last       |-> 0,
      update     |-> "default_update",
      zero       |-> "default_zero",
      entries    |-> [n \in 0 .. cap - 1 |-> Uninit] ]

rrd_setfunctions_none(r, fupdate, fzero) == r

\* rrd_setfunctions(r, update, zero)
rrd_setfunctions(r, fupdate, fzero) == [r EXCEPT !.update = fupdate, !.zero = fzero]

rrd_len(r) ==
    IF r.tail < 0 THEN 0
    ELSE IF r.head <= r.tail THEN r.tail - r.head + 1
    ELSE r.capacity - r.head + r.tail + 1

rrd_tail(r) == r.tail

rrd_capacity(r) == r.capacity

rrd_entry(r, i) == r.entries[i]

rrd_store(r, v) == [r EXCEPT !.entries[r.tail] = v]

forward_nowrap(r) ==
    LET tail1 == IF r.tail + 1 >= r.capacity THEN 0 ELSE r.tail + 1
        head1 == IF tail1 = r.head THEN r.head + 1 ELSE r.head
    IN [r EXCEPT !.tail = tail1,
                 !.head = head1,
                 !.start = find_period(r.start + r.resolution + 1, r.resolution)]

forward_keephead(r) ==
    LET tail1 == IF r.tail + 1 >= r.capacity THEN 0 ELSE r.tail + 1
    IN [r EXCEPT !.tail = tail1,
                 !.start = find_period(r.start + r.resolution + 1, r.resolution)]

forward(r) ==
    LET tail1 == IF r.tail + 1 >= r.capacity THEN 0 ELSE r.tail + 1
        head1 == IF tail1 = r.head
                 THEN (IF r.head + 1 >= r.capacity THEN 0 ELSE r.head + 1)
                 ELSE r.head
    IN [r EXCEPT !.tail = tail1,
                 !.head = head1,
                 !.start = find_period(r.start + r.resolution + 1, r.resolution)]

rrd_get_nowrap(r, i) ==
    IF (i < 0) \/ (i >= rrd_len(r)) THEN NULL ELSE r.head + i

rrd_get(r, i) ==
    IF (i < 0) \/ (i >= rrd_len(r)) THEN NULL
    ELSE LET n == r.head + i
         IN IF n >= r.capacity THEN n - r.capacity ELSE n

----------------------------------------------------------------------------
(* Callbacks of test.c *)

txg_update_keeplast(r, pv) == rrd_store(r, pv)

txg_update(r, pv) ==
    LET old == rrd_entry(r, rrd_tail(r))
        new == [l |-> IF old.l < pv.l THEN old.l ELSE pv.l,
                h |-> IF old.h > pv.h THEN old.h ELSE pv.h]
    IN rrd_store(r, new)

txg_zero_present(r, p) == rrd_store(r, p)

txg_zero_index_self(r) == rrd_tail(r)

\* The entry txg_zero reads: the one before tail, around the ring
txg_zero_index(r) ==
    IF rrd_tail(r) = 0 THEN rrd_capacity(r) - 1 ELSE rrd_tail(r) - 1

txg_zero(r, p) ==
    LET n == txg_zero_index(r)
    IN rrd_store(r, rrd_entry(r, n))

update(r, v) == r

zero(r, v) == r

\* A float payload.  A sample is the one-element list of its value; the
\* rolling average f_update computes, old - old/res + v/res, is kept as the
\* list of the samples folded into it, oldest first.
Flt(x) == <<x>>

f_update(r, pv) == rrd_store(r, rrd_entry(r, rrd_tail(r)) \o pv)

f_zero_clear(r, p) == rrd_store(r, Flt(0))

f_zero(r, p) == rrd_store(r, p)

\* default_update and default_zero: no-ops where they return
default_update(r, pv) == r

default_zero(r, pv) == r

\* (r->update)(r, v) and (r->zero)(r, v)
call_update(r, v) ==
    IF r.update = "txg_update" THEN txg_update(r, v)
    ELSE IF r.update = "f_update" THEN f_update(r, v)
    ELSE IF r.update = "update" THEN update(r, v)
    ELSE default_update(r, v)

call_zero(r, v) ==
    IF r.zero = "txg_zero" THEN txg_zero(r, v)
    ELSE IF r.zero = "f_zero" THEN f_zero(r, v)
    ELSE IF r.zero = "zero" THEN zero(r, v)
    ELSE default_zero(r, v)

----------------------------------------------------------------------------
(* rrd_add_at.  The machine m carries the ring r and the ghosts: cv, the   *)
(* bucket start each slot was claimed for, and nu / nz, the numbers of     *)
(* update and zero invocations of this call.                               *)

NoCalls == [nu |-> 0, nz |-> 0]

RECURSIVE gap_loop(_, _, _)
gap_loop(m, v, t0) ==
    IF m.r.start < t0
    THEN LET r1 == forward(m.r)
             r2 == call_zero(r1, v)
         IN gap_loop([r |-> r2,
                      cv |-> [m.cv EXCEPT ![r1.tail] = {r1.start}],
                      nu |-> m.nu,
                      nz |-> m.nz + 1,
                      zl |-> Append(m.zl, [prev |-> m.r.tail, tail |-> r1.tail, head |-> r1.head,
                                           evict |-> r1.tail = m.r.head])],
                     v, t0)
    ELSE m

\* Empty rrd, put in first element
add_first_rawstart(r, cv, v, t) ==
    LET r1 == rrd_store([r EXCEPT !.head = 0, !.tail = 0], v)
    IN [r |-> [r1 EXCEPT !.start = t, !.last = t],
        cv |-> [cv EXCEPT ![0] = {t}],
        nu |-> 0, nz |-> 0, zl |-> <<>>]

add_first(r, cv, v, t) ==
    LET t0 == find_period(t, r.resolution)
        r1 == rrd_store([r EXCEPT !.head = 0, !.tail = 0], v)
    IN [r |-> [r1 EXCEPT !.start = t0, !.last = t],
        cv |-> [cv EXCEPT ![0] = {t0}],
        nu |-> 0, nz |-> 0, zl |-> <<>>]

\* In the current period: leave the merge to update()
add_same_rawstart(r, cv, v, t) ==
    [r |-> call_update([r EXCEPT !.start = t, !.last = t], v),
     cv |-> cv, nu |-> 1, nz |-> 0, zl |-> <<>>]

add_same_keeplast(r, cv, v, t) ==
    LET t0 == find_period(t, r.resolution)
    IN [r |-> call_update([r EXCEPT !.start = t0], v),
        cv |-> cv, nu |-> 1, nz |-> 0, zl |-> <<>>]

add_same(r, cv, v, t) ==
    LET t0 == find_period(t, r.resolution)
    IN [r |-> call_update([r EXCEPT !.start = t0, !.last = t], v),
        cv |-> cv, nu |-> 1, nz |-> 0, zl |-> <<>>]

\* One or more periods in the future: skip forward, then store
add_gap_nostore(r, cv, v, t) ==
    LET t0 == find_period(t, r.resolution)
        m == gap_loop([r |-> r, cv |-> cv, nu |-> 0, nz |-> 0, zl |-> <<>>], v, t0)
    IN [r |-> [m.r EXCEPT !.start = t0, !.last = t],
        cv |-> [m.cv EXCEPT ![m.r.tail] = {t0}],
        nu |-> m.nu, nz |-> m.nz, zl |-> m.zl]

add_gap(r, cv, v, t) ==
    LET t0 == find_period(t, r.resolution)
        m == gap_loop([r |-> r, cv |-> cv, nu |-> 0, nz |-> 0, zl |-> <<>>], v, t0)
        r1 == rrd_store(m.r, v)
    IN [r |-> [r1 EXCEPT !.start = t0, !.last = t],
        cv |-> [m.cv EXCEPT ![r1.tail] = {t0}],
        nu |-> m.nu, nz |-> m.nz, zl |-> m.zl]

rrd_add_at_noreject(r, cv, v, t) ==
    IF r.tail < 0 THEN add_first(r, cv, v, t)
    ELSE IF find_period(t, r.resolution) = r.start THEN add_same(r, cv, v, t)
    ELSE add_gap(r, cv, v, t)

rrd_add_at_strictstart(r, cv, v, t) ==
    IF r.tail < 0 THEN add_first(r, cv, v, t)
    ELSE IF t < r.start THEN [r |-> r, cv |-> cv, nu |-> 0, nz |-> 0, zl |-> <<>>]
    ELSE IF find_period(t, r.resolution) = r.start THEN add_same(r, cv, v, t)
    ELSE add_gap(r, cv, v, t)

rrd_add_at(r, cv, v, t) ==
    IF r.tail < 0 THEN add_first(r, cv, v, t)
    ELSE IF t < r.last THEN [r |-> r, cv |-> cv, nu |-> 0, nz |-> 0, zl |-> <<>>]
    ELSE IF find_period(t, r.resolution) = r.start THEN add_same(r, cv, v, t)
    ELSE add_gap(r, cv, v, t)

----------------------------------------------------------------------------
(* Multi-ring database *)

\* dbrrd_spec_t arrays: entries of positive capacity, then the sentinel
Sentinel == [capacity |-> 0, tv |-> 0]

E(cap, w) == [capacity |-> cap, tv |-> w]

\* The databases of the model: the spec array p and the callback pair pol
\* handed to dbrrd_create, and the payloads vals the caller then feeds.
\* Payloads are opaque to the engine, so only the two smallest rings are
\* fed two distinct payload values; the others are fed one.
Creates ==
    { [p |-> <<E(1, 2), Sentinel>>,                   pol |-> "txg",  vals |-> {Txg(1), Txg(2)}],
      [p |-> <<E(2, 3), Sentinel>>,                   pol |-> "txg",  vals |-> {Txg(1), Txg(2)}],
      [p |-> <<E(3, 2), Sentinel>>,                   pol |-> "noop", vals |-> {Txg(1)}],
      [p |-> <<E(2, 4), E(2, 2), Sentinel>>,          pol |-> "txg",  vals |-> {Txg(1)}],
      [p |-> <<E(2, 3), E(3, 2), Sentinel>>,          pol |-> "noop", vals |-> {Txg(1)}],
      [p |-> <<E(2, 4), E(2, 2), E(2, 1), Sentinel>>, pol |-> "txg",  vals |-> {Txg(1)}],
      [p |-> <<E(2, 2), E(2, 4), Sentinel>>,          pol |-> "txg",  vals |-> {Txg(1)}] }

\* The arguments sz, update and zero the tests hand to dbrrd_create with
\* the callback pair pol: sizeof (txg_store_t), sizeof (float), and
\* sizeof (double) with the no-op pair
Args(pol) ==
    IF pol = "txg" THEN [sz |-> 16, update |-> "txg_update", zero |-> "txg_zero"]
    ELSE IF pol = "f" THEN [sz |-> 4, update |-> "f_update", zero |-> "f_zero"]
    ELSE [sz |-> 8, update |-> "update", zero |-> "zero"]

\* The allocator: one cell per block malloc has handed out (its address is
\* its index), and in ptrs the addresses of the rings of the list, head first
NoHeap == [cells |-> <<>>, ptrs |-> <<>>]

\* malloc(sizeof (rrd_t) + cap * sz) succeeding, in rrd_create
malloc(hp) == [hp EXCEPT !.cells = Append(@, [live |-> TRUE, frees |-> 0])]

free_twice(hp, a) == [hp EXCEPT !.cells[a] = [live |-> FALSE, frees |-> @.frees + 2]]

\* free(r)
free(hp, a) == [hp EXCEPT !.cells[a] = [live |-> FALSE, frees |-> @.frees + 1]]

rrd_destroy_leak(hp, a) == hp

\* rrd_destroy(r)
rrd_destroy(hp, a) == IF a # NULL THEN free(hp, a) ELSE hp

\* dbrrd_destroy(h): every ring of the list is destroyed, head first
RECURSIVE dbrrd_destroy(_)
dbrrd_destroy(hp) ==
    IF hp.ptrs = <<>> THEN hp
    ELSE dbrrd_destroy([rrd_destroy(hp, Head(hp.ptrs)) EXCEPT !.ptrs = Tail(@)])

\* The loop of dbrrd_create from entry k on, h the list built so far and hp
\* the allocator; the allocation for entry fail returns NULL (fail = 0: none
\* does). The new ring is linked in front.
RECURSIVE create_loop(_, _, _, _, _, _)
create_loop(p, k, h, a, hp, fail) ==
    IF p[k].capacity > 0
    THEN IF k = fail
         THEN [h |-> <<>>, heap |-> IF h # <<>> THEN dbrrd_destroy(hp) ELSE hp]
         ELSE LET r == rrd_create(p[k].tv, p[k].capacity, a.sz)
                  hq == malloc(hp)
              IN create_loop(p, k + 1,
                             <<rrd_setfunctions(r, a.update, a.zero)>> \o h, a,
                             [hq EXCEPT !.ptrs = <<Len(hq.cells)>> \o @], fail)
    ELSE [h |-> h, heap |-> hp]

dbrrd_create_inorder(p, a) ==
    LET h == create_loop(p, 1, <<>>, a, NoHeap, 0).h
    IN [k \in 1 .. Len(h) |-> h[Len(h) + 1 - k]]

\* dbrrd_create(name, p, sz, update, zero) when every allocation succeeds
dbrrd_create(p, a) == create_loop(p, 1, <<>>, a, NoHeap, 0).h

dbrrd_add_at_cascade(h, cvs, vp, t) ==
    [k \in 1 .. Len(h) |->
        IF k = 1 \/ h[k - 1].tail < 0 \/ find_period(t, h[k - 1].resolution) # h[k - 1].start
        THEN rrd_add_at(h[k], cvs[k], vp, t)
        ELSE [r |-> h[k], cv |-> cvs[k], nu |-> 0, nz |-> 0, zl |-> <<>>]]

dbrrd_add_at_stopearly(h, cvs, vp, t) ==
    [k \in 1 .. Len(h) |->
        IF k = 1 \/ h[k - 1].tail >= 0 THEN rrd_add_at(h[k], cvs[k], vp, t)
        ELSE [r |-> h[k], cv |-> cvs[k], nu |-> 0, nz |-> 0, zl |-> <<>>]]

dbrrd_add_at_headonly(h, cvs, vp, t) ==
    [k \in 1 .. Len(h) |->
        IF k = 1 THEN rrd_add_at(h[k], cvs[k], vp, t)
        ELSE [r |-> h[k], cv |-> cvs[k], nu |-> 0, nz |-> 0, zl |-> <<>>]]

\* One rrd_add_at per ring, head to tail of the list
dbrrd_add_at(h, cvs, vp, t) ==
    [k \in 1 .. Len(h) |-> rrd_add_at(h[k], cvs[k], vp, t)]

\* seen is a ghost: the rings the loop examined, in the order it did
Miss == [ret |-> 0, ring |-> 0, i |-> NULL, vp |-> NULL, res |-> 0, seen |-> <<>>]

\* Time start for this rrd (may not be full): the start of its oldest bucket
\* (the lower edge of the retained horizon [start - width*(length-1), start + width))
horizon_low(r) == r.start - (r.resolution * (rrd_len(r) - 1))

RECURSIVE query_loop(_, _, _)
query_loop(h, k, tv) ==
    IF k > Len(h) THEN Miss
    ELSE LET r == h[k]
             t0 == find_period(tv, r.resolution)
             start == horizon_low(r)
         IN IF t0 >= start
            THEN LET i == CQuot(t0 - start, r.resolution)
                 IN [ret |-> 1, ring |-> k, i |-> i,
                     vp |-> rrd_get(r, i), res |-> r.resolution, seen |-> <<k>>]
            ELSE [query_loop(h, k + 1, tv) EXCEPT !.seen = <<k>> \o @]

dbrrd_query_headonly(h, tv) ==
    IF tv > h[1].last THEN Miss
    ELSE IF rrd_len(h[1]) = 0 THEN Miss
    ELSE query_loop(<<h[1]>>, 1, tv)

dbrrd_query_again(h, tv) ==
    IF tv > h[1].last THEN Miss
    ELSE IF rrd_len(h[1]) = 0 THEN Miss
    ELSE LET q == query_loop(h, 1, tv)
         IN IF q.ret = 1 THEN q ELSE [query_loop(h, 1, tv) EXCEPT !.seen = q.seen \o @]

dbrrd_query_nofuture(h, tv) ==
    IF rrd_len(h[1]) = 0 THEN Miss
    ELSE query_loop(h, 1, tv)

dbrrd_query(h, tv) ==
    IF tv > h[1].last THEN Miss
    ELSE IF rrd_len(h[1]) = 0 THEN Miss
    ELSE query_loop(h, 1, tv)

----------------------------------------------------------------------------
(* The state machine *)

\* multi_find is not running
Idle == [pc |-> "idle", t |-> 0, k |-> 0, rounds |-> 0, ret |-> 0, vp |-> NULL, res |-> 0]

Empty(r) == r.tail < 0

NoCover(h) == [k \in 1 .. Len(h) |-> [n \in 0 .. h[k].capacity - 1 |-> {}]]

\* The database dbrrd_create(c.p) returns, before any sample
\* Nothing accepted yet
NoOrigin == [set |-> FALSE, first |-> 0, evicted |-> FALSE]

\* The origin of ring r after an rrd_add_at with outcome out: the I1 branch
\* sets start from the first sample, and a round of the gap loop evicts
\* when forward moves tail onto head
Tracked(o, r, out) ==
    IF Empty(r)
    THEN IF Empty(out.r) THEN o
         ELSE [set |-> TRUE, first |-> out.r.start, evicted |-> FALSE]
    ELSE [o EXCEPT !.evicted = @ \/ \E j \in 1 .. Len(out.zl) : out.zl[j].evict]

Boot(c) ==
    /\ cfg = c
    /\ stack = dbrrd_create(c.p, Args(c.pol))
    /\ cover = NoCover(stack)
    /\ calls = [k \in 1 .. Len(stack) |-> NoCalls]
    /\ pre = stack
    /\ precover = cover
    /\ op = [kind |-> "create", t |-> 0, v |-> Uninit]
    /\ qres = Miss
    /\ ret = 0
    /\ fed = 0
    /\ heap = create_loop(c.p, 1, <<>>, Args(c.pol), NoHeap, 0).heap
    /\ proc = [testing |-> TRUE, alive |-> TRUE]
    /\ zlog = [k \in 1 .. Len(stack) |-> <<>>]
    /\ mf = Idle
    /\ origin = [k \in 1 .. Len(stack) |-> NoOrigin]

Init == \E c \in Creates : Boot(c)

Exits_never(r, out) == FALSE

\* An rrd_add_at on ring r with outcome out ran into default_update or
\* default_zero, which in a TESTING build print a message and exit
Exits(r, out) ==
    /\ proc.testing
    /\ \/ out.nu > 0 /\ r.update = "default_update"
       \/ out.nz > 0 /\ r.zero = "default_zero"

\* dbrrd_add_at(h, &v, t)
Insert(v, t) ==
    LET out == dbrrd_add_at(stack, cover, v, t)
    IN /\ proc.alive
       /\ proc' = [proc EXCEPT !.alive = ~ \E k \in 1 .. Len(stack) : Exits(stack[k], out[k])]
       /\ stack' = [k \in 1 .. Len(stack) |-> out[k].r]
       /\ cover' = [k \in 1 .. Len(stack) |-> out[k].cv]
       /\ calls' = [k \in 1 .. Len(stack) |-> [nu |-> out[k].nu, nz |-> out[k].nz]]
       /\ zlog' = [k \in 1 .. Len(stack) |-> out[k].zl]
       /\ pre' = stack
       /\ precover' = cover
       /\ op' = [kind |-> "add", t |-> t, v |-> v]
       /\ origin' = [k \in 1 .. Len(stack) |-> Tracked(origin[k], stack[k], out[k])]
       /\ UNCHANGED <<cfg, qres, ret, heap, mf>>

\* dbrrd_add_at(h, &v, t) with t drawn from T
AddAt(T) == \E v \in cfg.vals, t \in T : Insert(v, t) /\ UNCHANGED fed

Query_touching(T) ==
    \E t \in T :
        /\ stack # <<>>
        /\ qres' = dbrrd_query(stack, t)
        /\ stack' = [stack EXCEPT ![1].last = IF t > @ THEN t ELSE @]
        /\ pre' = stack
        /\ precover' = cover
        /\ op' = [kind |-> "query", t |-> t, v |-> Uninit]
        /\ UNCHANGED <<cfg, cover, calls, ret, fed, heap, proc, zlog, mf, origin>>

\* dbrrd_query(h, t, &p, &res) with t drawn from T
Query(T) ==
    \E t \in T :
        /\ qres' = dbrrd_query(stack, t)
        /\ pre' = stack
        /\ precover' = cover
        /\ op' = [kind |-> "query", t |-> t, v |-> Uninit]
        /\ UNCHANGED <<cfg, stack, cover, calls, ret, fed, heap, proc, zlog, mf, origin>>

DbrrdAddAt == AddAt(Times)

DbrrdQuery == Query(Times)

Next == DbrrdAddAt \/ DbrrdQuery

Spec == Init /\ [][Next]_vars

\* The same database when the caller's clock never yields a negative time:
\* inserts at t >= 0, queries at any time
DbrrdAddAtNonNeg == AddAt(NonNegTimes)

NextNonNegAdds == DbrrdAddAtNonNeg \/ DbrrdQuery

SpecNonNegAdds == Init /\ [][NextNonNegAdds]_vars

\* ... and queries at t >= 0 only
DbrrdQueryNonNeg == Query(NonNegTimes)

NextNonNeg == DbrrdAddAtNonNeg \/ DbrrdQueryNonNeg

SpecNonNeg == Init /\ [][NextNonNeg]_vars

\* rrd_get(r, i) on any ring of the database, i from one below the first
\* index to one past the capacity
RrdGet ==
    \E k \in 1 .. Len(stack) :
        \E i \in -1 .. stack[k].capacity :
            /\ ret' = rrd_get(stack[k], i)
            /\ pre' = stack
            /\ precover' = cover
            /\ op' = [kind |-> "rrd_get", ring |-> k, i |-> i]
            /\ UNCHANGED <<cfg, stack, cover, calls, qres, fed, heap, proc, zlog, mf, origin>>

NextGet == DbrrdAddAt \/ RrdGet

SpecGet == Init /\ [][NextGet]_vars

----------------------------------------------------------------------------
(* Rings whose update is keep-first (update of test.c writes nothing), fed *)
(* two distinct payloads at any time                                       *)

KeepFirstCreates ==
    { [p |-> <<E(c, w), Sentinel>>, pol |-> "noop", vals |-> {Txg(1), Txg(2)}] :
        c \in 1 .. 2, w \in 1 .. 3 }

InitKeepFirst == \E c \in KeepFirstCreates : Boot(c)

SpecKeepFirst == InitKeepFirst /\ [][DbrrdAddAt]_vars

----------------------------------------------------------------------------
(* find_period on its own: small times of either sign against small       *)
(* periods, and the table of period_test                                   *)

\* The life of a database, from dbrrd_create to dbrrd_destroy. malloc may
\* return NULL in a TESTING build; kmem_alloc(KM_SLEEP) does not fail.
MaxLife == 3

LifeTimes == 0 .. MaxLife

LifeCreates ==
    { [p |-> <<Sentinel>>,                            pol |-> "txg",  vals |-> {Txg(1)}],
      [p |-> <<E(2, 2), Sentinel>>,                   pol |-> "txg",  vals |-> {Txg(1), Txg(2)}],
      [p |-> <<E(1, 3), E(2, 1), Sentinel>>,          pol |-> "noop", vals |-> {Txg(1)}],
      [p |-> <<E(2, 4), E(2, 2), E(2, 1), Sentinel>>, pol |-> "txg",  vals |-> {Txg(1)}] }

InitLife ==
    /\ cfg \in LifeCreates
    /\ stack = <<>>
    /\ cover = <<>>
    /\ calls = <<>>
    /\ pre = <<>>
    /\ precover = <<>>
    /\ op = [kind |-> "start"]
    /\ qres = Miss
    /\ ret = 0
    /\ fed = 0
    /\ heap = NoHeap
    /\ proc \in [testing : BOOLEAN, alive : {TRUE}]
    /\ zlog = <<>>
    /\ mf = Idle
    /\ origin = <<>>

\* h = dbrrd_create(name, p, sz, update, zero); the allocation for entry
\* fail returns NULL
DbrrdCreate ==
    /\ op.kind = "start"
    /\ \E fail \in 0 .. Len(cfg.p) - 1 :
          LET out == create_loop(cfg.p, 1, <<>>, Args(cfg.pol), heap, fail)
          IN /\ fail = 0 \/ proc.testing
             /\ stack' = out.h
             /\ heap' = out.heap
             /\ cover' = NoCover(out.h)
             /\ calls' = [k \in 1 .. Len(out.h) |-> NoCalls]
             /\ pre' = stack
             /\ precover' = cover
             /\ op' = [kind |-> "dbrrd_create", fail |-> fail]
             /\ ret' = IF out.h = <<>> THEN NULL ELSE Head(out.heap.ptrs)
             /\ zlog' = [k \in 1 .. Len(out.h) |-> <<>>]
             /\ origin' = [k \in 1 .. Len(out.h) |-> NoOrigin]
             /\ UNCHANGED <<cfg, qres, fed, proc, mf>>

\* The database exists: created and not yet destroyed
Created == op.kind \notin {"start", "dbrrd_destroy"}

LifeAddAt == Created /\ AddAt(LifeTimes)

\* dbrrd_query and rrd_get read through the pointer they are handed
LifeQuery == Created /\ stack # <<>> /\ Query(LifeTimes)

LifeGet == Created /\ RrdGet

\* dbrrd_destroy(h)
DbrrdDestroy ==
    /\ Created
    /\ proc.alive
    /\ heap' = dbrrd_destroy(heap)
    /\ stack' = <<>>
    /\ cover' = <<>>
    /\ calls' = <<>>
    /\ pre' = stack
    /\ precover' = cover
    /\ op' = [kind |-> "dbrrd_destroy"]
    /\ zlog' = <<>>
    /\ origin' = <<>>
    /\ UNCHANGED <<cfg, qres, ret, fed, proc, mf>>

NextLife == DbrrdCreate \/ LifeAddAt \/ LifeQuery \/ LifeGet \/ DbrrdDestroy

SpecLife == InitLife /\ [][NextLife]_vars

\* A single ring as rrd_create returns it, in a build with or without
\* TESTING; the caller may install callbacks before the first sample
DefaultCreates == {<<E(c, w), Sentinel>> : c \in 1 .. 2, w \in 1 .. 2}

InitDefault ==
    /\ cfg \in [p : DefaultCreates, pol : {"default"}, vals : {{Txg(1)}}]
    /\ stack = <<rrd_create(cfg.p[1].tv, cfg.p[1].capacity, Args("noop").sz)>>
    /\ cover = NoCover(stack)
    /\ calls = <<NoCalls>>
    /\ pre = stack
    /\ precover = cover
    /\ op = [kind |-> "create", t |-> 0, v |-> Uninit]
    /\ qres = Miss
    /\ ret = 0
    /\ fed = 0
    /\ heap = [malloc(NoHeap) EXCEPT !.ptrs = <<1>>]
    /\ proc \in [testing : BOOLEAN, alive : {TRUE}]
    /\ zlog = <<<<>>>>
    /\ mf = Idle
    /\ origin = <<NoOrigin>>

\* rrd_setfunctions(r, update, zero), before the first sample
RrdSetfunctions ==
    /\ op.kind = "create"
    /\ stack' = <<rrd_setfunctions(stack[1], Args("noop").update, Args("noop").zero)>>
    /\ pre' = stack
    /\ precover' = cover
    /\ op' = [kind |-> "rrd_setfunctions", t |-> 0, v |-> Uninit]
    /\ UNCHANGED <<cfg, cover, calls, qres, ret, fed, heap, proc, zlog, mf, origin>>

NextDefault == RrdSetfunctions \/ DbrrdAddAt

SpecDefault == InitDefault /\ [][NextDefault]_vars

\* The multi-ring prototype of the earlier test program, on the dialect
\* that keeps time in milliseconds (rrdt_t) and takes a struct timeval
tv2rrdt(tv) == (tv.tv_sec * 1000) + (tv.tv_usec \div 1000)

rrdt2tv(rt) == [tv_sec |-> rt \div 1000, tv_usec |-> (rt % 1000) * 1000]

MultiTvs == [tv_sec : {0}, tv_usec : {1000 * m + u : m \in LifeTimes, u \in {0, 999}}]

\* Rounds of the loop of multi_find the model follows
MaxRounds == 4

\* multi_add_at(h, &v, &tv)
MultiAddAt ==
    /\ mf.pc # "loop"
    /\ \E v \in cfg.vals, tv \in MultiTvs : Insert(v, tv2rrdt(tv))
    /\ UNCHANGED fed

\* n = multi_find(h, &tv, &p, &res), up to the loop
MultiFindCall ==
    /\ mf.pc # "loop"
    /\ \E tv \in MultiTvs :
          LET t == tv2rrdt(tv)
          IN mf' = IF t > stack[1].last \/ rrd_len(stack[1]) = 0
                   THEN [Idle EXCEPT !.pc = "done", !.t = t]
                   ELSE [Idle EXCEPT !.pc = "loop", !.t = t, !.k = 1]
    /\ UNCHANGED <<cfg, stack, cover, calls, pre, precover, op, qres, ret, fed, heap, proc, zlog, origin>>

\* One round of while (r != NULL) in multi_find; r is not advanced
MultiFindRound ==
    /\ mf.pc = "loop"
    /\ mf.rounds < MaxRounds
    /\ mf' = IF mf.k > Len(stack) THEN [mf EXCEPT !.pc = "done", !.ret = 0]
             ELSE LET r == stack[mf.k]
                      t0 == find_period(mf.t, r.resolution)
                      start == r.start - (r.resolution * (rrd_len(r) - 1))
                  IN IF t0 >= start
                     THEN [mf EXCEPT !.pc = "done", !.ret = 1,
                                     !.vp = rrd_get(r, (t0 - start) \div r.resolution),
                                     !.res = rrdt2tv(r.resolution)]
                     ELSE [mf EXCEPT !.rounds = @ + 1]
    /\ UNCHANGED <<cfg, stack, cover, calls, pre, precover, op, qres, ret, fed, heap, proc, zlog, origin>>

InitMulti == \E c \in LifeCreates : c.p[1].capacity > 0 /\ Boot(c)

NextMulti == MultiAddAt \/ MultiFindCall \/ MultiFindRound

SpecMulti == InitMulti /\ [][NextMulti]_vars

MaxWidth == 4     \* periods range over 1 .. MaxWidth

\* tests[] of period_test: 2024-01-02 is the day after Clock's
period_tests ==
    { [time |-> Clock(10, 4, 10) + 86400, tperiod |-> 30],
      [time |-> Clock(10, 4, 29) + 86400, tperiod |-> 30],
      [time |-> Clock(10, 4, 30) + 86400, tperiod |-> 30],
      [time |-> Clock(10, 4, 10) + 86400, tperiod |-> 60],
      [time |-> Clock(10, 4, 10) + 86400, tperiod |-> 3600],
      [time |-> Clock(10, 4, 10) + 86400, tperiod |-> 86400] }

PeriodCalls ==
    { [time |-> t, tperiod |-> w] : t \in Times, w \in 1 .. MaxWidth }
        \cup period_tests

FindPeriod ==
    \E a \in PeriodCalls :
        /\ ret' = find_period(a.time, a.tperiod)
        /\ op' = [kind |-> "find_period", time |-> a.time, tperiod |-> a.tperiod]
        /\ UNCHANGED <<cfg, stack, cover, calls, pre, precover, qres, fed, heap, proc, zlog, mf, origin>>

SpecPeriod == Init /\ [][FindPeriod]_vars

----------------------------------------------------------------------------
(* A run of samples one width apart: a single ring receives the serial     *)
(* numbers 1, 2, 3, ... as payloads, the first at any time, every further  *)
(* one exactly one width after the one before.                             *)

MaxRun == 6       \* samples of a run

RunCreates ==
    { [p |-> <<E(c, w), Sentinel>>, pol |-> pl, vals |-> {}] :
        c \in 1 .. 3, w \in 1 .. 3, pl \in {"txg", "noop"} }

RunAddAt ==
    /\ fed < MaxRun
    /\ fed' = fed + 1
    /\ \E t \in IF Empty(stack[1]) THEN Times
                 ELSE {stack[1].last + stack[1].resolution} :
           Insert(Txg(fed + 1), t)

InitRun == \E c \in RunCreates : Boot(c)

SpecRun == InitRun /\ [][RunAddAt]_vars

\* A single txg ring fed a few samples at any times, each sample with a
\* payload of its own
MaxSmear == 3

SmearAddAt ==
    /\ fed < MaxSmear
    /\ fed' = fed + 1
    /\ \E t \in Times : Insert(Txg(fed + 1), t)

InitSmear == \E c \in RunCreates : c.pol = "txg" /\ Boot(c)

SpecSmear == InitSmear /\ [][SmearAddAt]_vars

\* forward(r) on its own, on a ring that holds a first sample
FirstAddAt == fed = 0 /\ RunAddAt

Forward ==
    /\ 0 < fed /\ fed < MaxRun
    /\ fed' = fed + 1
    /\ stack' = <<forward(stack[1])>>
    /\ pre' = stack
    /\ precover' = cover
    /\ op' = [kind |-> "forward", t |-> 0, v |-> Uninit]
    /\ origin' = [origin EXCEPT ![1].evicted = @ \/ forward(stack[1]).tail = stack[1].head]
    /\ UNCHANGED <<cfg, cover, calls, qres, ret, heap, proc, zlog, mf>>

NextForward == FirstAddAt \/ Forward

SpecForward == InitRun /\ [][NextForward]_vars

----------------------------------------------------------------------------
(* The test programs of test.c: complex_test, dbrrd_test and txg_test with *)
(* txg1.  SEC2HR is dropped: every time and every width of the tests is a  *)
(* whole number of seconds, and find_period(s*t, s*w) = s*find_period(t, w)*)
(* for a positive scale s, so the model counts seconds where the tests     *)
(* count nanoseconds.  Besides dbrrd_test and txg_test themselves the      *)
(* model runs both programs on smaller spec arrays with a smaller LIMIT.   *)

MaxFeed == 12     \* LIMIT of the scaled-down test programs

Smp(t, x) == [t |-> t, v |-> Flt(x)]

\* input[] of complex_test
complex_input ==
    << Smp(Clock(8, 10,  1),   5), Smp(Clock(8, 10, 30),   5),
       Smp(Clock(8, 10, 45),   5), Smp(Clock(8, 11,  0),   5),
       Smp(Clock(8, 11, 15),  10), Smp(Clock(8, 11, 35),  15),
       Smp(Clock(8, 11, 40),   8), Smp(Clock(8, 11, 42), 305),
       Smp(Clock(8, 12,  4),  10), Smp(Clock(8, 13, 34),  20),
       Smp(Clock(8, 14,  5),  30), Smp(Clock(8, 14, 35),  30),
       Smp(Clock(8, 15, 20),  20) >>

DbrrdLimit == 150000

TxgLimit == 60 * 1440 * 365 * 11

Test(name, p, pol, scaled, first, limit) ==
    [test |-> name, p |-> p, pol |-> pol, vals |-> {},
     scaled |-> scaled, first |-> first, limit |-> limit]

complex_test ==
    Test("complex", <<E(10, 30), Sentinel>>, "f", FALSE, 0, Len(complex_input))

dbrrd_test ==
    Test("dbrrd", <<E(100, 1000), E(100, 100), E(100, 10), E(100, 1), Sentinel>>,
         "f", FALSE, 0, DbrrdLimit)

txg_test ==
    Test("txg", <<E(10, 31536000), E(365, 86400), E(1440, 60), Sentinel>>,
         "txg", FALSE, 60, TxgLimit)

ScaledTests ==
    { Test("dbrrd", <<E(2, 4), E(2, 2), E(2, 1), Sentinel>>, "f", TRUE, 0, MaxFeed),
      Test("dbrrd", <<E(3, 4), E(3, 2), Sentinel>>,          "f", TRUE, 0, MaxFeed),
      Test("dbrrd", <<E(2, 3), E(2, 2), Sentinel>>,          "f", TRUE, 0, MaxFeed),
      Test("dbrrd", <<E(1, 2), E(1, 1), Sentinel>>,          "f", TRUE, 0, MaxFeed),
      Test("txg",   <<E(1, 8), E(2, 4), E(4, 2), Sentinel>>, "txg", TRUE, 2, MaxFeed),
      Test("txg",   <<E(2, 6), E(2, 3), E(3, 1), Sentinel>>, "txg", TRUE, 1, MaxFeed) }

Tests == {complex_test, dbrrd_test, txg_test} \cup ScaledTests

\* Sample number j, counted from 0, of test program c
Sample(c, j) ==
    IF c.test = "complex" THEN complex_input[j + 1]
    ELSE IF c.test = "dbrrd" THEN Smp(j, 5)
    ELSE [t |-> j, v |-> Txg(j + 1)]

\* Number of samples the model feeds one call at a time: all of them in
\* complex_test and in the scaled-down programs, the first loop of txg1
FeedStop(c) == IF c.scaled \/ c.test = "complex" THEN c.limit ELSE c.first

\* Times the program queries after n samples.  The scaled-down programs
\* query every time from below zero to the future after every sample.
Probes(c, n) ==
    IF c.scaled THEN (0 - NegSpan) .. (n + 1)
    ELSE IF c.test = "dbrrd" /\ n = c.limit
    THEN {n + 1, n - 1, n - 100, n - 100 - 1, n - 1000, n - 1000 - 1,
          n - 10000, n - 10000 - 1, n - 100000, 150000 - 100000 - 1}
    ELSE IF c.test = "txg" /\ n = c.first THEN {30}
    ELSE IF c.test = "txg" /\ n = c.limit
    THEN {n + 1, n - 30, n - 86400 - 30, n - 31536000 - 30,
          n - (11 * 31536000) - 30}
    ELSE {}

\* A ring of capacity cap and width w of a database that received sample
\* j at second j for j = 0 .. n-1, n >= 1, without a query in between: the
\* current bucket is number (n-1)/w, bucket b sits in slot b mod cap and
\* holds what the callbacks of policy pol made of seconds b*w .. b*w+w-1.
FilledBucket(pol, w, n, b) ==
    LET lo == b * w
        hi == IF (b + 1) * w < n THEN (b + 1) * w ELSE n
    IN IF pol = "txg" THEN [l |-> lo + 1, h |-> hi]
       ELSE [j \in 1 .. hi - lo |-> 5]

FilledRing(pol, r, n) ==
    LET w == r.resolution
        cap == r.capacity
        B == (n - 1) \div w
        In(slot) == B - ((B - slot) % cap)
    IN [r EXCEPT
          !.head = IF B < cap THEN 0 ELSE (B + 1) % cap,
          !.tail = B % cap,
          !.start = B * w,
          !.last = n - 1,
          !.entries = [slot \in 0 .. cap - 1 |->
                          IF In(slot) < 0 THEN Uninit
                          ELSE FilledBucket(pol, w, n, In(slot))]]

FilledCover(cap, w, n) ==
    LET B == (n - 1) \div w
        In(slot) == B - ((B - slot) % cap)
    IN [slot \in 0 .. cap - 1 |-> IF In(slot) < 0 THEN {} ELSE {In(slot) * w}]

\* update and zero invocations of the insert of sample n-1
FilledCalls(w, n) ==
    IF n = 1 THEN NoCalls
    ELSE IF (n - 1) % w = 0 THEN [nu |-> 0, nz |-> 1]
    ELSE [nu |-> 1, nz |-> 0]

\* the first sample, t = 0, opened bucket 0; bucket B evicts once B >= cap
FilledOrigin(cap, w, n) ==
    [set |-> TRUE, first |-> 0, evicted |-> (n - 1) \div w >= cap]

Filled(c, n) ==
    LET h == dbrrd_create(c.p, Args(c.pol))
    IN IF n = 0 THEN h
       ELSE [k \in 1 .. Len(h) |-> FilledRing(c.pol, h[k], n)]

FilledCovers(c, n) ==
    LET h == dbrrd_create(c.p, Args(c.pol))
    IN IF n = 0 THEN NoCover(h)
       ELSE [k \in 1 .. Len(h) |-> FilledCover(h[k].capacity, h[k].resolution, n)]

\* The next sample of the program
TestAdd ==
    /\ fed < FeedStop(cfg)
    /\ fed' = fed + 1
    /\ Insert(Sample(cfg, fed).v, Sample(cfg, fed).t)

\* A query of the program
TestQuery == Query(Probes(cfg, fed))

\* The rest of the feeding loop, for (i = ...; i < LIMIT; ++i), as one step
Fill ==
    /\ cfg.test # "complex"
    /\ cfg.first <= fed
    /\ fed < cfg.limit
    /\ fed' = cfg.limit
    /\ stack' = Filled(cfg, cfg.limit)
    /\ cover' = FilledCovers(cfg, cfg.limit)
    /\ calls' = [k \in 1 .. Len(stack) |-> FilledCalls(stack[k].resolution, cfg.limit)]
    /\ pre' = Filled(cfg, cfg.limit - 1)
    /\ precover' = FilledCovers(cfg, cfg.limit - 1)
    /\ op' = [kind |-> "add", t |-> cfg.limit - 1, v |-> Sample(cfg, cfg.limit - 1).v]
    /\ zlog' = LET out == dbrrd_add_at(Filled(cfg, cfg.limit - 1),
                                        FilledCovers(cfg, cfg.limit - 1),
                                        Sample(cfg, cfg.limit - 1).v, cfg.limit - 1)
                IN [k \in 1 .. Len(stack) |-> out[k].zl]
    /\ origin' = [k \in 1 .. Len(stack) |->
                      FilledOrigin(stack[k].capacity, stack[k].resolution, cfg.limit)]
    /\ UNCHANGED <<cfg, qres, ret, heap, proc, mf>>

InitTests == \E c \in Tests : Boot(c)

NextTests == TestAdd \/ TestQuery \/ Fill

SpecTests == InitTests /\ [][NextTests]_vars

----------------------------------------------------------------------------
(* Vocabulary of the properties *)

Rings == 1 .. Len(stack)

InHorizon(r, t) == ~Empty(r) /\ horizon_low(r) <= t /\ t < r.start + r.resolution

\* Start of the interval that logical bucket i of r covers
BucketStart(r, i) == r.start - r.resolution * (rrd_len(r) - 1 - i)

Increasing(h) == \A k \in 1 .. Len(h) - 1 : h[k].resolution < h[k + 1].resolution

Min(S) == CHOOSE x \in S : \A y \in S : x <= y

----------------------------------------------------------------------------
(* Ring invariants *)

\* C1: after rrd_create and any sequence of rrd_add_at calls, either
\* head == tail == -1 and rrd_len == 0, or head and tail both lie in
\* [0, capacity) and rrd_len lies in [1, capacity].
C1_HeadTailLen ==
    \A k \in Rings :
        LET r == stack[k]
        IN \/ r.head = -1 /\ r.tail = -1 /\ rrd_len(r) = 0
           \/ /\ r.head \in 0 .. r.capacity - 1
              /\ r.tail \in 0 .. r.capacity - 1
              /\ rrd_len(r) \in 1 .. r.capacity

\* A full ring whose occupied slice wraps (head > tail), just after an
\* insert that advanced it.
C1_Witness ==
    /\ op.kind = "add"
    /\ \E k \in Rings :
        /\ stack[k].capacity >= 2
        /\ stack[k].head > stack[k].tail
        /\ rrd_len(stack[k]) = stack[k].capacity
        /\ calls[k].nz >= 1

\* C2: in every reachable state start mod width == 0, and whenever the
\* ring is non-empty start <= last < start + width.
C2_AlignedWindow ==
    \A k \in Rings :
        LET r == stack[k]
        IN /\ CRem(r.start, r.resolution) = 0
           /\ ~Empty(r) => (r.start <= r.last /\ r.last < r.start + r.resolution)

\* C3: the bucket rrd_get(r, i) returns, 0 <= i < length, is the one last
\* claimed for the interval starting at start - width*(length-1-i).
C3_BucketIntervals ==
    \A k \in Rings :
        LET r == stack[k]
        IN \A i \in 0 .. rrd_len(r) - 1 :
               cover[k][rrd_get(r, i)] = {BucketStart(r, i)}

----------------------------------------------------------------------------
(* Queries *)

Covering(t) == { k \in Rings : InHorizon(stack[k], t) }

\* C4: a dbrrd_query that returns 1 on a stack linked in strictly
\* increasing width writes to *res the minimum width over the rings whose
\* retained horizon contains t.
C4_TightestWidth ==
    (op.kind = "query" /\ qres.ret = 1 /\ Increasing(stack)) =>
        /\ Covering(op.t) # {}
        /\ qres.res = Min({ stack[k].resolution : k \in Covering(op.t) })

\* C5: when dbrrd_query returns 1, *vp is non-NULL, it is rrd_get(R, i)
\* of the chosen ring with i = (bucket_start(t) - horizon_low) / width,
\* i < rrd_len(R), and that bucket's interval contains t.
C5_HitBucket ==
    (op.kind = "query" /\ qres.ret = 1) =>
        LET r == stack[qres.ring]
            i == CQuot(find_period(op.t, r.resolution) - horizon_low(r), r.resolution)
        IN /\ qres.vp # NULL
           /\ qres.i = i
           /\ i < rrd_len(r)
           /\ qres.vp = rrd_get(r, i)
           /\ BucketStart(r, i) <= op.t
           /\ op.t < BucketStart(r, i) + r.resolution

\* C6: dbrrd_query returns 0 whenever t is greater than the last of the
\* finest ring, even when a coarser ring's active bucket covers t, and
\* returns 0 for every t on a stack that has received no insert.
C6_FutureOrEmptyMiss ==
    (op.kind = "query" /\ (op.t > stack[1].last \/ \A k \in Rings : Empty(stack[k]))) =>
        qres.ret = 0

\* A query past the finest ring's last that a coarser ring's active bucket covers.
C6_Witness ==
    /\ op.kind = "query"
    /\ op.t > stack[1].last
    /\ \E k \in Rings : k > 1 /\ ~Empty(stack[k])
                        /\ stack[k].start <= op.t
                        /\ op.t < stack[k].start + stack[k].resolution
    /\ qres.ret = 0

\* C7: dbrrd_query returns 0 for every t that lies before the retained
\* horizon of every ring, negative t included.
C7_TooOldMiss ==
    (op.kind = "query" /\ \A k \in Rings : ~Empty(stack[k]) /\ op.t < horizon_low(stack[k])) =>
        qres.ret = 0

----------------------------------------------------------------------------
(* Inserts *)

\* C8: after dbrrd_add_at(stack, v, t) every ring has last == t or
\* t < the value last had before the call; no ring is skipped.
C8_FanOut ==
    op.kind = "add" =>
        \A k \in Rings : stack[k].last = op.t \/ op.t < pre[k].last

\* A three-ring database after an accepted insert that followed another one.
C8_Witness ==
    /\ op.kind = "add"
    /\ Len(stack) >= 3
    /\ \A k \in Rings : ~Empty(pre[k]) /\ stack[k].last = op.t /\ pre[k].last < op.t

\* C9: rrd_add_at on a non-empty ring with t < last changes nothing and
\* invokes neither update nor zero.
C9_BackdatedNoOp ==
    op.kind = "add" =>
        \A k \in Rings :
            (~Empty(pre[k]) /\ op.t < pre[k].last) =>
                /\ stack[k] = pre[k]
                /\ cover[k] = precover[k]
                /\ calls[k] = NoCalls

\* A backdated insert into another bucket with another payload.
C9_Witness ==
    /\ op.kind = "add"
    /\ \E k \in Rings :
        /\ ~Empty(pre[k])
        /\ op.t < pre[k].last
        /\ find_period(op.t, pre[k].resolution) # pre[k].start
        /\ op.v # pre[k].entries[pre[k].tail]

C13_FullRingEviction ==
    op.kind = "add" =>
        LET r == stack[1]
            c == r.capacity
        IN /\ fed >= c =>
                /\ rrd_len(r) = c
                /\ \A i \in 0 .. c - 1 :
                     /\ rrd_get(r, i) # NULL
                     /\ rrd_entry(r, rrd_get(r, i)) = Txg(fed - c + 1 + i)
           /\ rrd_len(pre[1]) = c =>
                /\ calls[1].nz = 1
                /\ rrd_len(r) = c
                /\ \A i \in 0 .. c - 2 :
                     rrd_entry(r, rrd_get(r, i)) = rrd_entry(pre[1], rrd_get(pre[1], i + 1))

\* C19: inserting the same (t, v) twice with rrd_add_at into a ring whose
\* update callback is keep-first (does not write) leaves head, tail, start,
\* last and every bucket's content identical to the state after inserting
\* (t, v) once: a step that repeats the insert the state came from changes
\* no ring.
C19_SameSampleTwice ==
    [][ (/\ cfg.pol = "noop"
         /\ op.kind = "add"
         /\ op'.kind = "add"
         /\ op'.t = op.t
         /\ op'.v = op.v) => (stack' = stack /\ cover' = cover) ]_vars

\* The repeated insert: it was merged by update into the bucket the payload
\* was stored in, at a time that is not a bucket start, and changed nothing.
C19_Witness ==
    /\ cfg.pol = "noop"
    /\ op.kind = "add"
    /\ \E k \in Rings :
        /\ calls[k].nu = 1
        /\ stack[k] = pre[k]
        /\ stack[k].last = op.t
        /\ stack[k].start # op.t
        /\ stack[k].entries[stack[k].tail] = op.v
        /\ rrd_len(stack[k]) >= 2

----------------------------------------------------------------------------
(* Logical indexing *)

\* C14: rrd_get(r, i) returns NULL exactly when i < 0 or i >= rrd_len(r);
\* otherwise it returns the bucket at physical index (head + i) mod capacity,
\* so index 0 is the bucket at head, the oldest retained one, and index
\* rrd_len - 1 is the tail bucket.
C14_LogicalIndex ==
    op.kind = "rrd_get" =>
        LET r == stack[op.ring]
            i == op.i
        IN /\ (ret = NULL) <=> (i < 0 \/ i >= rrd_len(r))
           /\ ret # NULL =>
                /\ ret = (r.head + i) % r.capacity
                /\ i = 0 => ret = r.head
                /\ i = rrd_len(r) - 1 => ret = r.tail

\* A bucket fetched from a full ring whose head is past slot 0, so that the
\* logical index wraps around the end of the array.
C14_Witness ==
    /\ op.kind = "rrd_get"
    /\ ret # NULL
    /\ stack[op.ring].head + op.i >= stack[op.ring].capacity
    /\ ret < stack[op.ring].head

----------------------------------------------------------------------------
(* The test programs *)

\* Between the queries of a program that feeds second after second the
\* database is the one Filled describes.
FilledAgrees ==
    cfg.test # "complex" =>
        /\ stack = Filled(cfg, fed)
        /\ cover = FilledCovers(cfg, fed)
        /\ (op.kind = "add") =>
              /\ pre = Filled(cfg, fed - 1)
              /\ precover = FilledCovers(cfg, fed - 1)
              /\ calls = [k \in Rings |-> FilledCalls(stack[k].resolution, fed)]
              /\ op = [kind |-> "add", t |-> fed - 1, v |-> Sample(cfg, fed - 1).v]
              /\ origin = [k \in Rings |->
                              FilledOrigin(stack[k].capacity, stack[k].resolution, fed)]


\* Width of the ring that answered the last query, 0 after a miss
Answer == IF qres.ret = 1 THEN qres.res ELSE 0

\* Ring k reaches back to the query time t after n samples, by capacity
Reaches(k, t, n) ==
    LET w == stack[k].resolution
    IN find_period(t, w) >= find_period(n - 1, w) - w * (stack[k].capacity - 1)

\* ... and by capacity, but never to before the first sample
ReachesFromZero(k, t, n) ==
    LET w == stack[k].resolution
        low == find_period(n - 1, w) - w * (stack[k].capacity - 1)
    IN find_period(t, w) >= (IF low < 0 THEN 0 ELSE low)

Finer(j, k) == stack[j].resolution < stack[k].resolution

\* The ten queries of dbrrd_test after LIMIT = 150000 samples
DbrrdTestAnswers ==
    (cfg = dbrrd_test /\ fed = DbrrdLimit /\ op.kind = "query") =>
        /\ op.t = 150001 => Answer = 0
        /\ op.t \in {149999, 149900} => Answer = 1
        /\ op.t \in {149899, 149000} => Answer = 10
        /\ op.t \in {148999, 140000} => Answer = 100
        /\ op.t \in {139999, 50000} => Answer = 1000
        /\ op.t = 49999 => Answer = 0

C16_ComplexTest ==
    (cfg.test = "complex" /\ fed = Len(complex_input)) =>
        LET r == stack[1]
            expected == <<10, 20, 20, 20, 30, 30, 20>>
        IN /\ rrd_len(r) = 10
           /\ BucketStart(r, 0) = Clock(8, 10, 30)
           /\ \A n \in 0 .. r.capacity - 1 : Clock(8, 10, 0) \notin cover[1][n]
           /\ \A i \in 3 .. 9 :
                /\ rrd_get(r, i) # NULL
                /\ rrd_entry(r, rrd_get(r, i)) = Flt(expected[i - 2])
           /\ BucketStart(r, 4) = Clock(8, 12, 30)
           /\ cover[1][rrd_get(r, 4)] = {Clock(8, 12, 30)}
           /\ BucketStart(r, 5) = Clock(8, 13, 0)
           /\ cover[1][rrd_get(r, 5)] = {Clock(8, 13, 0)}

\* All 13 samples are in and the ring has wrapped.
C16_Witness ==
    /\ cfg.test = "complex"
    /\ fed = Len(complex_input)
    /\ stack[1].head > 0
    /\ stack[1].last = Clock(8, 15, 20)

\* C17: with txg_update on the stack (10 x 1 year), (365 x 1 day),
\* (1440 x 1 minute), after feeding txg values 1..60 at seconds 0..59 a
\* query at t = 30 s hits the minute ring and returns {low = 1, high = 60}:
\* low is the value of the earliest sample of that minute bucket and high
\* the value of the latest.  The scaled-down programs are held to the same:
\* a hit returns the values of the earliest and the latest sample of the
\* bucket it names.
C17_TxgLowHigh ==
    /\ (cfg = txg_test /\ fed = 60 /\ op.kind = "query" /\ op.t = 30) =>
          /\ qres.ret = 1
          /\ qres.res = 60
          /\ qres.vp # NULL
          /\ rrd_entry(stack[qres.ring], qres.vp) = [l |-> 1, h |-> 60]
    /\ (cfg.test = "txg" /\ op.kind = "query" /\ qres.ret = 1) =>
          LET b == find_period(op.t, qres.res)
              e == IF b + qres.res < fed THEN b + qres.res ELSE fed
          IN /\ qres.vp # NULL
             /\ rrd_entry(stack[qres.ring], qres.vp).l = Sample(cfg, b).v.l
             /\ rrd_entry(stack[qres.ring], qres.vp).h = Sample(cfg, e - 1).v.h

\* The query of txg1 at 30 s after its first loop.
C17_Witness ==
    /\ cfg = txg_test
    /\ fed = 60
    /\ op.kind = "query"
    /\ op.t = 30
    /\ qres.ret = 1
    /\ calls[1].nu = 1

\* C18: on the stack (10 x 1 year), (365 x 1 day), (1440 x 1 minute) fed one
\* sample per second from t = 0 to N-1 with N = 11 years, a query at N+1 s
\* misses, a query at N - 30 s is answered from the minute ring, at
\* N - 1 day - 30 s from the day ring, at N - 1 year - 30 s from the year
\* ring, and a query at N - 11 years - 30 s misses.  FilledAgrees is the
\* lemma that lets the model take the second loop of txg1 in one step.
C18_ElevenYears ==
    /\ (cfg = txg_test /\ fed = TxgLimit /\ op.kind = "query") =>
          /\ op.t = TxgLimit + 1 => Answer = 0
          /\ op.t = TxgLimit - 30 => Answer = 60
          /\ op.t = TxgLimit - 86400 - 30 => Answer = 86400
          /\ op.t = TxgLimit - 31536000 - 30 => Answer = 31536000
          /\ op.t = TxgLimit - (11 * 31536000) - 30 => Answer = 0
    /\ FilledAgrees

\* The query of txg1 one year and 30 s back, answered from the year ring.
C18_Witness ==
    /\ cfg = txg_test
    /\ fed = TxgLimit
    /\ op.kind = "query"
    /\ op.t = TxgLimit - 31536000 - 30
    /\ Answer = 31536000
    /\ rrd_len(stack[3]) = 10


----------------------------------------------------------------------------
(* Period arithmetic *)

\* C20: for every w > 0, every integer k >= 0 and every d with 0 <= d < w,
\* find_period(k*w + d, w) == k*w; a timestamp exactly on a bucket boundary
\* (d == 0) maps to the bucket that starts at that boundary, not to the
\* previous one.
C20_PeriodOfNonNegative ==
    (op.kind = "find_period" /\ op.time >= 0) =>
        LET w == op.tperiod
            k == op.time \div w
            d == op.time % w
        IN /\ op.time = k * w + d
           /\ 0 <= d /\ d < w
           /\ ret = k * w
           /\ d = 0 => ret = op.time

\* A time on a bucket boundary past zero, for a period wider than one.
C20_Witness ==
    /\ op.kind = "find_period"
    /\ op.time > 0
    /\ op.tperiod > 1
    /\ op.time % op.tperiod = 0
    /\ ret = op.time


\* C21: find_period is idempotent: find_period(find_period(t, w), w) ==
\* find_period(t, w) for every t and every w > 0.
C21_PeriodIdempotent ==
    op.kind = "find_period" => find_period(ret, op.tperiod) = ret

\* A negative time off the boundaries: the period found differs from the
\* time, and the period of the period is the period again.
C21_Witness ==
    /\ op.kind = "find_period"
    /\ op.time < 0
    /\ ret # op.time
    /\ find_period(ret, op.tperiod) = ret

\* C22: for every timestamp t in the range of the time type (negative
\* values of the signed hrtime_t included) and every w > 0,
\* find_period(t, w) is the largest multiple of w that is <= t, i.e.
\* find_period(t, w) <= t < find_period(t, w) + w.
C22_PeriodContainsTime ==
    op.kind = "find_period" =>
        /\ ret % op.tperiod = 0
        /\ ret <= op.time
        /\ op.time < ret + op.tperiod

\* Number of entries of the spec array p before its sentinel
Entries(p) == Min({k \in 1 .. Len(p) : p[k].capacity = 0}) - 1

\* The widths of the spec array p strictly descend up to the sentinel
Descending(p) == \A k \in 1 .. Entries(p) - 1 : p[k].tv > p[k + 1].tv

\* C23: given a spec array in strictly descending width order ended by a
\* zero-capacity entry, dbrrd_create returns one ring per entry before the
\* sentinel, linked in the reverse of the array order (head finest, widths
\* strictly increasing along next); every ring has the payload size and the
\* update and zero callbacks handed to dbrrd_create, and is empty.
C23_CreateReversed ==
    (op.kind = "create" /\ Descending(cfg.p)) =>
        LET n == Entries(cfg.p)
            a == Args(cfg.pol)
        IN /\ Len(stack) = n
           /\ \A k \in 1 .. n :
                 /\ stack[k].resolution = cfg.p[n + 1 - k].tv
                 /\ stack[k].capacity = cfg.p[n + 1 - k].capacity
                 /\ stack[k].size = a.sz
                 /\ stack[k].update = a.update
                 /\ stack[k].zero = a.zero
                 /\ Empty(stack[k])
                 /\ rrd_len(stack[k]) = 0
           /\ \A k \in 1 .. n - 1 : stack[k].resolution < stack[k + 1].resolution

C23_Witness ==
    /\ op.kind = "create" /\ Descending(cfg.p)
    /\ Entries(cfg.p) = 3 /\ Len(stack) = 3
    /\ stack[1].resolution = cfg.p[3].tv
    /\ stack[1].update = "txg_update" /\ stack[3].zero = "txg_zero"

\* Every block malloc handed out has been freed, and freed exactly once
AllFreedOnce ==
    \A a \in 1 .. Len(heap.cells) : ~ heap.cells[a].live /\ heap.cells[a].frees = 1

\* C24: if the allocation of the j-th ring fails inside dbrrd_create, every
\* ring created for entries 1 .. j-1 is destroyed exactly once, no ring
\* allocation remains live, and dbrrd_create returns NULL.
C24_CreateUnwinds ==
    (op.kind = "dbrrd_create" /\ op.fail > 0) =>
        /\ ret = NULL
        /\ stack = <<>>
        /\ heap.ptrs = <<>>
        /\ Len(heap.cells) = op.fail - 1
        /\ AllFreedOnce

C24_Witness ==
    /\ op.kind = "dbrrd_create" /\ op.fail = 3
    /\ ret = NULL
    /\ Len(heap.cells) = 2
    /\ heap.cells[1].frees = 1 /\ heap.cells[2].frees = 1

DefaultCalled(k) ==
    \/ calls[k].nu > 0 /\ pre[k].update = "default_update"
    \/ calls[k].nz > 0 /\ pre[k].zero = "default_zero"

\* C26: on a ring returned by rrd_create, every rrd_add_at call returns
\* normally and never terminates the process, a ring on which
\* rrd_setfunctions was never called included.
C26_AddNeverExits ==
    op.kind = "add" => proc.alive

\* C26, amended: rrd_add_at terminates the process exactly when it calls a
\* default callback in a TESTING build; in a build without TESTING the
\* defaults are no-ops (update leaves the bucket as it was), and a ring with
\* installed callbacks, a first sample and a backdated sample always return.
C26_AddExitsOnDefaultsWhenTesting ==
    op.kind = "add" =>
        /\ proc.alive <=> ~ (proc.testing /\ \E k \in Rings : DefaultCalled(k))
        /\ \A k \in Rings :
             (~ proc.testing /\ calls[k].nu > 0 /\ pre[k].update = "default_update")
                 => stack[k].entries = pre[k].entries

C26_Witness ==
    /\ op.kind = "add"
    /\ proc.testing /\ ~ proc.alive
    /\ stack[1].update = "default_update"
    /\ calls[1].nz > 0

\* Every block malloc handed out is live and was never freed
AllLive ==
    \A a \in 1 .. Len(heap.cells) : heap.cells[a].live /\ heap.cells[a].frees = 0

C28_ForwardOneBucket ==
    op.kind = "forward" =>
        LET r == pre[1]
            n == stack[1]
        IN /\ n.tail = (r.tail + 1) % r.capacity
           /\ n.head = IF n.tail = r.head THEN (r.head + 1) % r.capacity ELSE r.head
           /\ n.start = r.start + r.resolution

\* C29: for every accepted rrd_add_at with t0 = bucket_start(t, width) > start,
\* the gap loop executes advance and the zero callback exactly
\* (t0 - start) / width times each, for every width > 0.
C29_GapLoopCount ==
    op.kind = "add" =>
        \A k \in Rings :
            LET r == pre[k]
                t0 == find_period(op.t, r.resolution)
            IN (~ Empty(r) /\ op.t >= r.last /\ t0 > r.start)
                   => calls[k].nz = (t0 - r.start) \div r.resolution

\* C30: with the carry-forward zero policy (txg_zero) on a ring of capacity
\* >= 2, after an accepted insert that skips g >= 2 bucket widths every
\* intermediate bucket still retained holds the value the active bucket had
\* just before the insert, and the new tail bucket holds the incoming payload.
C30_CarryForward ==
    op.kind = "add" =>
        \A k \in Rings :
            LET r == pre[k]
                n == stack[k]
                t0 == find_period(op.t, r.resolution)
                g == (t0 - r.start) \div r.resolution
                len == rrd_len(n)
            IN (r.zero = "txg_zero" /\ r.capacity >= 2 /\ ~ Empty(r)
                  /\ op.t >= r.last /\ g >= 2)
                   => /\ rrd_entry(n, rrd_get(n, len - 1)) = op.v
                      /\ rrd_entry(n, rrd_tail(n)) = op.v
                      /\ \A i \in 0 .. len - 2 :
                            i >= len - g => rrd_entry(n, rrd_get(n, i)) = rrd_entry(r, rrd_tail(r))

C30_Witness ==
    /\ op.kind = "add"
    /\ pre[1].zero = "txg_zero" /\ pre[1].capacity = 3 /\ pre[1].resolution = 2
    /\ rrd_len(pre[1]) = 2
    /\ find_period(op.t, 2) = pre[1].start + 6
    /\ op.v = Txg(3)
    /\ rrd_entry(stack[1], rrd_get(stack[1], 0)) = rrd_entry(pre[1], rrd_tail(pre[1]))
    /\ rrd_entry(stack[1], rrd_get(stack[1], 1)) = rrd_entry(stack[1], rrd_get(stack[1], 0))
    /\ rrd_entry(stack[1], rrd_get(stack[1], 1)) # op.v
    /\ rrd_entry(stack[1], rrd_get(stack[1], 2)) = op.v

\* The ring k as the j-th zero call of the last rrd_add_at found it
SeenByZero(k, j) == [pre[k] EXCEPT !.tail = zlog[k][j].tail, !.head = zlog[k][j].head]

\* C31: every time the engine invokes txg_zero the ring is non-empty, tail
\* already refers to the freshly advanced bucket, and the index the callback
\* reads lies in [0, capacity) and is the bucket that was the tail just
\* before this advance when capacity >= 2, the tail itself when capacity = 1.
C31_ZeroReadsPreviousTail ==
    op.kind = "add" =>
        \A k \in Rings :
            pre[k].zero = "txg_zero" =>
                /\ Len(zlog[k]) = calls[k].nz
                /\ \A j \in 1 .. Len(zlog[k]) :
                      LET z == zlog[k][j]
                          r == SeenByZero(k, j)
                          n == txg_zero_index(r)
                      IN /\ rrd_len(r) > 0
                         /\ z.prev >= 0
                         /\ rrd_tail(r) = (z.prev + 1) % r.capacity
                         /\ 0 <= n /\ n < r.capacity
                         /\ r.capacity >= 2 => n = z.prev /\ n # rrd_tail(r)
                         /\ r.capacity = 1 => n = rrd_tail(r)

C31_Witness ==
    /\ op.kind = "add"
    /\ pre[1].zero = "txg_zero" /\ pre[1].capacity = 2
    /\ Len(zlog[1]) = 2
    /\ zlog[1][1].tail = 0 /\ txg_zero_index(SeenByZero(1, 1)) = 1
    /\ zlog[1][2].tail = 1 /\ txg_zero_index(SeenByZero(1, 2)) = 0

\* The last insert was accepted by ring k and skipped g bucket widths
Skipped(k) ==
    IF Empty(pre[k]) \/ op.t < pre[k].last THEN 0
    ELSE (find_period(op.t, pre[k].resolution) - pre[k].start) \div pre[k].resolution

\* C32: after an accepted insert that skips g >= capacity bucket widths,
\* rrd_len = capacity, head = (tail + 1) mod capacity, the tail bucket holds
\* the incoming payload and every other bucket of the ring was written by a
\* zero call of this same insert, one of the last capacity rounds of the loop.
C32_LongGapOverwritesRing ==
    op.kind = "add" =>
        \A k \in Rings :
            LET n == stack[k]
                nz == Len(zlog[k])
            IN Skipped(k) >= n.capacity =>
                /\ rrd_len(n) = n.capacity
                /\ n.head = (n.tail + 1) % n.capacity
                /\ rrd_entry(n, rrd_tail(n)) = op.v
                /\ \A slot \in 0 .. n.capacity - 1 :
                      \E j \in 1 .. nz : j > nz - n.capacity /\ zlog[k][j].tail = slot

\* The ring k just before the j-th advance of the last rrd_add_at
BeforeAdvance(k, j) ==
    [pre[k] EXCEPT !.tail = zlog[k][j].prev,
                   !.head = IF j = 1 THEN pre[k].head ELSE zlog[k][j - 1].head]

\* C33: an advance on a ring with rrd_len < capacity leaves head unchanged
\* and increases rrd_len by exactly 1; an advance on a ring with
\* rrd_len = capacity moves head by one position (mod capacity) and leaves
\* rrd_len = capacity; head changes in no other situation once the ring is
\* non-empty.
C33_HeadMovesOnlyWhenFull ==
    \A k \in Rings :
        /\ op.kind = "add" =>
              /\ \A j \in 1 .. Len(zlog[k]) :
                    LET b == BeforeAdvance(k, j)
                        a == SeenByZero(k, j)
                    IN /\ rrd_len(b) < b.capacity =>
                            a.head = b.head /\ rrd_len(a) = rrd_len(b) + 1
                       /\ rrd_len(b) = b.capacity =>
                            a.head = (b.head + 1) % b.capacity /\ rrd_len(a) = b.capacity
              /\ (~ Empty(pre[k]) /\ Len(zlog[k]) = 0) => stack[k].head = pre[k].head
              /\ Len(zlog[k]) > 0 => stack[k].head = zlog[k][Len(zlog[k])].head
        /\ op.kind = "query" => stack[k].head = pre[k].head

C33_Witness ==
    /\ op.kind = "add"
    /\ pre[1].capacity = 3 /\ rrd_len(pre[1]) = 2
    /\ Len(zlog[1]) = 3
    /\ zlog[1][1].head = pre[1].head
    /\ zlog[1][2].head = (pre[1].head + 1) % 3
    /\ zlog[1][3].head = (pre[1].head + 2) % 3

\* C34: once a ring is non-empty, after every further rrd_add_at call
\* (backdated ones included) last and start are not smaller than before the
\* call, and start is larger exactly when the call advanced to a later bucket.
C34_NeverRegresses ==
    op.kind = "add" =>
        \A k \in Rings :
            ~ Empty(pre[k]) =>
                /\ stack[k].last >= pre[k].last
                /\ stack[k].start >= pre[k].start
                /\ stack[k].start > pre[k].start <=> calls[k].nz > 0
                /\ op.t < pre[k].last =>
                      stack[k].start = pre[k].start /\ stack[k].last = pre[k].last

C34_Witness ==
    /\ op.kind = "add"
    /\ \E k \in Rings :
          /\ ~ Empty(pre[k]) /\ ~ Empty(pre[1])
          /\ op.t < pre[1].start
          /\ stack[k].last = pre[k].last
          /\ stack[k].start = pre[k].start
          /\ rrd_len(stack[k]) = stack[k].capacity
          /\ pre[k].start > 0

\* Ring k took the last insert: it was empty or the time was not backdated
Accepted(k) == Empty(pre[k]) \/ op.t >= pre[k].last

\* C35: after any sequence of dbrrd_add_at calls on a stack built by
\* dbrrd_create, all rings are empty together or non-empty together and all
\* hold the same value of last; each dbrrd_add_at is accepted by every ring
\* or rejected as backdated by every ring.
C35_RingsInStep ==
    /\ \A k \in Rings :
          /\ Empty(stack[k]) <=> Empty(stack[1])
          /\ stack[k].last = stack[1].last
    /\ op.kind = "add" =>
          /\ \A k \in Rings : Accepted(k) <=> Accepted(1)
          /\ \A k \in Rings : Accepted(k) => ~ Empty(stack[k]) /\ stack[k].last = op.t
          /\ \A k \in Rings : ~ Accepted(k) => stack[k] = pre[k]

C35_Witness ==
    /\ op.kind = "add"
    /\ Len(stack) = 3
    /\ \A k \in Rings : ~ Accepted(k) /\ rrd_len(stack[k]) = 2
    /\ stack[1].start # stack[2].start /\ stack[2].start # stack[3].start

\* The test the loop of dbrrd_query applies to ring k for time t
PassesTest(k, t) == find_period(t, stack[k].resolution) >= horizon_low(stack[k])

C37_MultiFindReturns ==
    /\ mf.pc = "loop" =>
          /\ mf.k = mf.rounds + 1
          /\ \A j \in 1 .. mf.rounds : ~ PassesTest(j, mf.t)
    /\ mf.pc = "done" =>
          /\ mf.ret = 1 =>
                /\ PassesTest(mf.k, mf.t)
                /\ \A j \in 1 .. mf.k - 1 : ~ PassesTest(j, mf.t)
          /\ (mf.ret = 0 /\ mf.k > 0) => \A j \in Rings : ~ PassesTest(j, mf.t)

HorizonNotBelowFirst ==
    \A k \in Rings :
        ~ Empty(stack[k]) /\ origin[k].set => horizon_low(stack[k]) >= origin[k].first

\* C39: in every reachable state of a non-empty ring, horizon_low is never
\* smaller than the bucket start of the first sample the ring accepted, is
\* never negative when no timestamp was, and equals that bucket start as
\* long as no bucket has been evicted.
C39_HorizonLow ==
    \A k \in Rings :
        ~ Empty(stack[k]) /\ origin[k].set =>
            /\ horizon_low(stack[k]) >= origin[k].first
            /\ origin[k].first >= 0 => horizon_low(stack[k]) >= 0
            /\ ~ origin[k].evicted => horizon_low(stack[k]) = origin[k].first

\* The same for rings wider than one time unit
HorizonLowWide ==
    \A k \in Rings :
        ~ Empty(stack[k]) /\ origin[k].set /\ stack[k].resolution > 1 =>
            /\ horizon_low(stack[k]) >= origin[k].first
            /\ ~ origin[k].evicted => horizon_low(stack[k]) = origin[k].first

\* What the statement compares of a ring
RingState(r) ==
    [head |-> r.head, tail |-> r.tail, start |-> r.start, last |-> r.last,
     entries |-> r.entries]

\* The standalone ring of the same width, capacity and callbacks as r
Standalone(r) ==
    rrd_setfunctions(rrd_create(r.resolution, r.capacity, r.size), r.update, r.zero)

\* C40: every ring of a stack is, after every dbrrd_add_at, in the state
\* (head, tail, start, last, bucket contents) of a standalone ring of the same
\* width, capacity and callbacks that was given the same payloads and times
\* in the same order through rrd_add_at: a new database holds the rings
\* rrd_create and rrd_setfunctions make, and each dbrrd_add_at(v, t) takes
\* every ring to where rrd_add_at(v, t) alone takes a ring in that state,
\* whatever the other rings hold.
C40_RingsIndependent ==
    /\ op.kind = "create" => \A k \in Rings : stack[k] = Standalone(stack[k])
    /\ op.kind = "add" =>
          /\ Len(stack) = Len(pre)
          /\ \A k \in Rings :
                RingState(stack[k]) =
                    RingState(rrd_add_at(pre[k], precover[k], op.v, op.t).r)

C40_Witness ==
    /\ op.kind = "add"
    /\ Len(stack) = 3
    /\ \A k \in Rings : ~ Empty(pre[k])
    /\ stack[1].head # pre[1].head
    /\ stack[2].tail # pre[2].tail
    /\ stack[3] # pre[3] /\ stack[3].tail = pre[3].tail
====
